---- MODULE Spec2Model ----
(***************************************************************************)
(* Model of the ingredient scraper (src/scraper/scraper.py): the resilient *)
(* fetcher get_with_retries, the text helpers, the three source adapters,  *)
(* the resolution chain lookup_one and the batch runner main.              *)
(*                                                                         *)
(* Strings are TLA+ strings; a character is a string of length one.        *)
(* Three specifications share the variables:                               *)
(*   SpecFetch   get_with_retries, one step per request / sleep / return   *)
(*   SpecLookup  lookup_one applied to inputs drawn from bounded sets      *)
(*   Spec        main: read input, dispatch workers, collect, reorder      *)
(*   SpecLive    Spec with fair scheduling of the main thread and the pool *)
(*   SpecServer  the caching backend (src/server/main.py) in front of the  *)
(*               AI service (src/server/aimodel.py)                        *)
(***************************************************************************)
EXTENDS Integers, Sequences, FiniteSets, TLC

VARIABLES
    \* ---- get_with_retries ----
    tries,        \* parameter tries
    attempt,      \* loop variable of "for attempt in range(tries)"
    fetch_pc,     \* "off" | "request" | "sleep" | "done"
    requests,     \* number of requests.get calls made so far
    outcomes,     \* outcome of each request made, in order
    waits,        \* every time.sleep performed, in tenths of a second, in order
    slept,        \* tenths of a second slept since the last request
    gaps,         \* delay waited between request k and request k+1, in order
    last_exc,     \* TRUE once an exception was stored in last_exc
    fetch_ret,    \* "pending" | "response" | "None"
    \* ---- one lookup_one call ----
    call,         \* its arguments: ingredient, ins_data, banned_lookup and the net
    call_pc,      \* "off" | "called" | "returned"
    call_ret,     \* what it returned: out, and the adapters and URLs it used
    \* ---- main ----
    stdin,        \* what main reads
    main_pc,      \* "off" | "read" | "submit" | "collect" | "done" | "crashed"
    ingredients,  \* data.get("ingredients", [])
    submitted,    \* number of positions submitted to the executor so far
    fut,          \* per position: "new" | "queued" | "running" | "done" | "collected"
    ret,          \* per position: what its lookup_one invocation returned
    results,      \* the list results, in as_completed order
    printed,      \* what main printed
    \* ---- the caching backend (main.py) and the AI service (aimodel.py) ----
    cache,          \* ingredients_collection: _id -> data
    srv_pc,         \* "off" | "idle" | "ai" (waiting for requests.post to return)
    served,         \* number of /process_ingredients requests received so far
    posted,         \* the list "ingredients" of the request being served
    cached_results, \* dict cached_results of the request being served
    missing,        \* list missing of the request being served
    ai_posts,       \* every list posted to the AI service so far, in order
    ai_pc,          \* "off" | "analyze" | "returned"
    model_calls,    \* number of chat_completion calls of the current /analyze request
    ai_resp,        \* what /analyze returned: status and results
    response        \* the last response of /process_ingredients

fetchVars == <<tries, attempt, fetch_pc, requests, outcomes, waits, slept, gaps,
               last_exc, fetch_ret>>

callVars == <<call, call_pc, call_ret>>

mainVars == <<stdin, main_pc, ingredients, submitted, fut, ret, results, printed>>

serverVars == <<cache, srv_pc, served, posted, cached_results, missing, ai_posts,
                ai_pc, model_calls, ai_resp, response>>

vars == <<fetchVars, callVars, mainVars, serverVars>>

-----------------------------------------------------------------------------
(* Bounds *)
MaxTries == 4       \* largest value of the parameter tries
MaxBatch == 2       \* longest list of ingredients read by main
LongRepeat == 90    \* the long sample text is this many 5-character words
MaxRequests == 2    \* number of /process_ingredients requests in a run
MaxPosted == 2      \* longest list of ingredients in a request
MaxModelCalls == 3  \* depth at which the recursion of analyze is cut off

-----------------------------------------------------------------------------
(* Python string primitives over TLA+ strings *)

Char(s, i) == SubSeq(s, i, i)

UPPERCASE == "ABCDEFGHIJKLMNOPQRSTUVWXYZ"
LOWERCASE == "abcdefghijklmnopqrstuvwxyz"
DIGITS == "0123456789"

WhiteSpace == {" ", "\t", "\n"}

IsDigit(c) == \E i \in 1..Len(DIGITS) : Char(DIGITS, i) = c

LowerChar(c) ==
    IF \E i \in 1..26 : Char(UPPERCASE, i) = c
    THEN Char(LOWERCASE, CHOOSE i \in 1..26 : Char(UPPERCASE, i) = c)
    ELSE c

\* Python "k in t"
contains(t, k) == \E i \in 1..(Len(t) - Len(k) + 1) : SubSeq(t, i, i + Len(k) - 1) = k

\* the two halves of a string of two or more characters
Left(s) == SubSeq(s, 1, Len(s) \div 2)
Right(s) == SubSeq(s, Len(s) \div 2 + 1, Len(s))

\* the position of the first occurrence of k in t (there is one)
IndexOf(t, k) ==
    CHOOSE i \in 1..(Len(t) - Len(k) + 1) :
        /\ SubSeq(t, i, i + Len(k) - 1) = k
        /\ \A j \in 1..(i - 1) : SubSeq(t, j, j + Len(k) - 1) # k

\* str.lower(), character by character
RECURSIVE lower(_)
lower(s) == IF Len(s) <= 1 THEN LowerChar(s) ELSE lower(Left(s)) \o lower(Right(s))

RECURSIVE lstrip(_)
lstrip(s) == IF s # "" /\ Char(s, 1) \in WhiteSpace THEN lstrip(Tail(s)) ELSE s

RECURSIVE rstrip(_)
rstrip(s) ==
    IF s # "" /\ Char(s, Len(s)) \in WhiteSpace
    THEN rstrip(SubSeq(s, 1, Len(s) - 1)) ELSE s

strip(s) == rstrip(lstrip(s))

startswith(s, p) == Len(p) <= Len(s) /\ SubSeq(s, 1, Len(p)) = p

endswith(s, p) == Len(p) <= Len(s) /\ SubSeq(s, Len(s) - Len(p) + 1, Len(s)) = p


\* Python s[:n]
Prefix(s, n) == SubSeq(s, 1, IF n < Len(s) THEN n ELSE Len(s))

\* Python s.split(sep): the list of pieces between the occurrences of sep
RECURSIVE split(_, _)
split(s, sep) ==
    IF ~contains(s, sep) THEN <<s>>
    ELSE LET i == IndexOf(s, sep)
         IN  <<SubSeq(s, 1, i - 1)>> \o split(SubSeq(s, i + Len(sep), Len(s)), sep)

\* Python sep.join(list)
RECURSIVE join(_, _)
join(sep, l) ==
    IF l = <<>> THEN ""
    ELSE IF Len(l) = 1 THEN l[1]
    ELSE l[1] \o sep \o join(sep, Tail(l))

\* Python l[:n]
Take(l, n) == SubSeq(l, 1, IF n < Len(l) THEN n ELSE Len(l))

-----------------------------------------------------------------------------
(* Config *)
MAX_DESC_CHARS == 400
MAX_WORKERS == 6
DDG_RETRY == 4
WIKI_RETRY == 3

-----------------------------------------------------------------------------
(* Helpers *)

\* re.sub(r'\s+', ' ', s)
\* every run of white space becomes one space; a run that spans the two
\* halves of the string leaves a space on each side, of which one is kept
RECURSIVE CollapseWhiteSpace(_)
CollapseWhiteSpace(s) ==
    IF Len(s) <= 1 THEN (IF s \in WhiteSpace THEN " " ELSE s)
    ELSE LET a == CollapseWhiteSpace(Left(s))
             b == CollapseWhiteSpace(Right(s))
         IN  IF endswith(a, " ") /\ startswith(b, " ") THEN a \o Tail(b) ELSE a \o b

\* re.sub(r'\[[^\]]*\]', '', s)
\* the leftmost "[" that has a "]" after it is removed up to the first such "]"
RECURSIVE RemoveBracketed(_)
RemoveBracketed(s) ==
    IF ~contains(s, "[") THEN s
    ELSE LET i == IndexOf(s, "[")
             rest == SubSeq(s, i + 1, Len(s))
         IN  IF ~contains(rest, "]") THEN s
             ELSE SubSeq(s, 1, i - 1)
                      \o RemoveBracketed(SubSeq(rest, IndexOf(rest, "]") + 1, Len(rest)))

clean_text(s) ==
    IF s = "" THEN "" ELSE strip(RemoveBracketed(CollapseWhiteSpace(s)))

\* html.unescape, for the one entity the modelled inputs can carry
RECURSIVE unescape(_)
unescape(s) ==
    IF ~contains(s, "&amp;") THEN s
    ELSE LET i == IndexOf(s, "&amp;")
         IN  SubSeq(s, 1, i - 1) \o "&" \o unescape(SubSeq(s, i + 5, Len(s)))

normalize_key(s) == CollapseWhiteSpace(unescape(lower(strip(s))))

first_sentences(text, n) ==
    IF text = "" THEN ""
    ELSE LET sentences == split(text, ". ")
             out == strip(join(". ", Take(sentences, n)))
         IN  IF ~endswith(out, ".") THEN out \o "." ELSE out

-----------------------------------------------------------------------------
(* Heuristics *)

kws == <<"food", "used in", "cooking", "ingredient", "additive", "seasoning",
         "flavour", "flavor", "preservative", "spice", "culinary", "color", "colour",
         "sweetener", "thickener", "oil", "flour", "dye", "coloring", "used as">>

looks_like_food_use(text) ==
    IF text = "" THEN FALSE
    ELSE LET t == lower(text) IN \E i \in 1..Len(kws) : contains(t, kws[i])

suffixes == <<"powder", "powdered", "flour", "meal", "extract", "oil", "powder", "crushed">>

\* the variants yielded for the suffixes from position i on
RECURSIVE SuffixVariants(_, _)
SuffixVariants(q, i) ==
    IF i > Len(suffixes) THEN <<>>
    ELSE (IF endswith(lower(q), " " \o suffixes[i])
          THEN <<SubSeq(q, 1, Len(q) - (Len(suffixes[i]) + 1))>>
          ELSE <<>>) \o SuffixVariants(q, i + 1)

normalize_query_variants_toggle_first(query) ==
    LET q == strip(query)
    IN  <<q>> \o (IF endswith(q, "s") THEN <<SubSeq(q, 1, Len(q) - 1)>> ELSE <<q \o "s">>)
             \o SuffixVariants(q, 1)

\* the sequence of strings the generator yields, in order
normalize_query_variants(query) ==
    LET q == strip(query)
    IN  <<q>> \o SuffixVariants(q, 1)
             \o (IF endswith(q, "s") THEN <<SubSeq(q, 1, Len(q) - 1)>> ELSE <<q \o "s">>)

-----------------------------------------------------------------------------
(* The network as the adapters see it: get_with_retries returns either a   *)
(* response with status 200 or None.  A site answers a URL with a body; a  *)
(* net is one site behaviour per endpoint.                                 *)

NoResponse == [kind |-> "None"]

\* q.replace(' ', '_')
RECURSIVE SpacesToUnderscores(_)
SpacesToUnderscores(s) ==
    IF Len(s) <= 1 THEN (IF s = " " THEN "_" ELSE s)
    ELSE SpacesToUnderscores(Left(s)) \o SpacesToUnderscores(Right(s))

\* the URL of a request: endpoint and the query it carries (quote is injective)
SummaryUrl(q) == [site |-> "summary", q |-> SpacesToUnderscores(q)]
PageUrl(q) == [site |-> "wiki", q |-> SpacesToUnderscores(q)]
DdgUrl(q) == [site |-> "ddg", q |-> q]

\* a URL requested, with whether the request got a response
Fetched(url, r) == [site |-> url.site, q |-> url.q, got |-> r.kind # "None"]

\* what get_with_retries returns for url under net: a site answers either
\* every URL (only = "") or the one URL whose query is site.only
Fetch(net, url) ==
    LET site == net[url.site]
    IN  IF site.only = "" \/ site.only = url.q THEN site.body ELSE NoResponse

-----------------------------------------------------------------------------
(* Wikipedia Summary API (tries variants) *)

RECURSIVE SummaryLoop(_, _, _, _)
SummaryLoop(net, variants, i, fetched) ==
    IF i > Len(variants) THEN [text |-> "", fetched |-> fetched]
    ELSE LET url == SummaryUrl(variants[i])
             r == Fetch(net, url)
             f == Append(fetched, Fetched(url, r))
         IN  IF r.kind # "summary" THEN SummaryLoop(net, variants, i + 1, f)
             ELSE LET extract == clean_text(r.extract)
                  IN  IF extract # ""
                      THEN [text |-> first_sentences(extract, 2), fetched |-> f]
                      ELSE SummaryLoop(net, variants, i + 1, f)

wikipedia_summary(query, net) ==
    IF query = "" THEN [text |-> "", fetched |-> <<>>]
    ELSE SummaryLoop(net, normalize_query_variants(query), 1, <<>>)

(* Wikipedia HTML fallback (last resort) *)

\* the first of the paragraphs that is food-related or longer than 40 characters
RECURSIVE FirstUsefulPara(_, _)
FirstUsefulPara(paras, j) ==
    IF j > Len(paras) THEN ""
    ELSE LET txt == clean_text(paras[j])
         IN  IF txt # "" /\ (looks_like_food_use(txt) \/ Len(txt) > 40)
             THEN Prefix(first_sentences(txt, 2), MAX_DESC_CHARS)
             ELSE FirstUsefulPara(paras, j + 1)

RECURSIVE FallbackLoop(_, _, _, _)
FallbackLoop(net, variants, i, fetched) ==
    IF i > Len(variants) THEN [text |-> "", fetched |-> fetched]
    ELSE LET url == PageUrl(variants[i])
             r == Fetch(net, url)
             f == Append(fetched, Fetched(url, r))
         IN  IF r.kind = "None" THEN FallbackLoop(net, variants, i + 1, f)
             ELSE LET paras == IF r.kind = "html" THEN Take(r.paras, 6) ELSE <<>>
                      txt == FirstUsefulPara(paras, 1)
                  IN  IF txt # "" THEN [text |-> txt, fetched |-> f]
                      ELSE FallbackLoop(net, variants, i + 1, f)

wikipedia_fallback(query, net) ==
    IF query = "" THEN [text |-> "", fetched |-> <<>>]
    ELSE FallbackLoop(net, normalize_query_variants(query), 1, <<>>)

(* DuckDuckGo API snippet *)

DdgKeys == <<"Abstract", "Answer", "Definition", "AbstractText">>

DdgQueries(query) ==
    <<query \o " food additive", query \o " ingredient", query \o " food use",
      query \o " cooking", query \o " edible", query \o " seasoning">>

\* data.get(key, "") or ""
GetText(data, key) == IF key \in DOMAIN data THEN data[key] ELSE ""

RECURSIVE FirstKeySnippet(_, _)
FirstKeySnippet(data, k) ==
    IF k > Len(DdgKeys) THEN ""
    ELSE LET txt == clean_text(GetText(data, DdgKeys[k]))
         IN  IF txt # "" /\ looks_like_food_use(txt)
             THEN Prefix(first_sentences(txt, 2), MAX_DESC_CHARS)
             ELSE FirstKeySnippet(data, k + 1)

RECURSIVE FirstTopicSnippet(_, _)
FirstTopicSnippet(topics, k) ==
    IF k > Len(topics) THEN ""
    ELSE LET txt == clean_text(GetText(topics[k], "Text"))
         IN  IF txt # "" /\ looks_like_food_use(txt)
             THEN Prefix(first_sentences(txt, 2), MAX_DESC_CHARS)
             ELSE FirstTopicSnippet(topics, k + 1)

DdgSnippet(data) ==
    LET a == FirstKeySnippet(data, 1)
    IN  IF a # "" THEN a
        ELSE FirstTopicSnippet(IF "RelatedTopics" \in DOMAIN data
                               THEN data.RelatedTopics ELSE <<>>, 1)

RECURSIVE DdgLoop(_, _, _, _)
DdgLoop(net, queries, i, fetched) ==
    IF i > Len(queries) THEN [text |-> "", fetched |-> fetched]
    ELSE LET url == DdgUrl(queries[i])
             r == Fetch(net, url)
             f == Append(fetched, Fetched(url, r))
         IN  IF r.kind # "ddg" THEN DdgLoop(net, queries, i + 1, f)
             ELSE LET txt == DdgSnippet(r.data)
                  IN  IF txt # "" THEN [text |-> txt, fetched |-> f]
                      ELSE DdgLoop(net, queries, i + 1, f)

ddg_api_snippet(query, net) == DdgLoop(net, DdgQueries(query), 1, <<>>)

-----------------------------------------------------------------------------
(* INS/E utilities (fallback table) *)

\* the end of the run of characters from position i on that satisfy \s
RECURSIVE SkipSpace(_, _)
SkipSpace(t, i) ==
    IF i <= Len(t) /\ Char(t, i) \in WhiteSpace THEN SkipSpace(t, i + 1) ELSE i

\* the longest run of digits from position i on (\d+ is greedy)
RECURSIVE DigitRun(_, _)
DigitRun(t, i) ==
    IF i <= Len(t) /\ IsDigit(Char(t, i)) THEN Char(t, i) \o DigitRun(t, i + 1) ELSE ""

\* group(1) of a match of (?:E|INS)\s*(\d+) that starts at position p, or ""
InsMatchAt(t, p) ==
    LET l == lower(t)
        viaE == IF Char(l, p) = "e" THEN DigitRun(t, SkipSpace(t, p + 1)) ELSE ""
        viaINS == IF SubSeq(l, p, IF p + 2 <= Len(l) THEN p + 2 ELSE Len(l)) = "ins"
                  THEN DigitRun(t, SkipSpace(t, p + 3)) ELSE ""
    IN  IF viaE # "" THEN viaE ELSE viaINS

\* re.search: the match at the leftmost position that has one
RECURSIVE InsSearchFrom(_, _)
InsSearchFrom(t, p) ==
    IF p > Len(t) THEN ""
    ELSE IF InsMatchAt(t, p) # "" THEN InsMatchAt(t, p)
    ELSE InsSearchFrom(t, p + 1)

\* m.group(1) if m else None; "" stands for None
numeric_ins_from_token(token) == InsSearchFrom(token, 1)

FALLBACK_INS ==
    [n \in {"621", "330"} |->
        IF n = "621"
        THEN [name |-> "Monosodium glutamate", function |-> "flavour enhancer",
              approved |-> "USA, European Union, India"]
        ELSE [name |-> "Citric acid", function |-> "food acid",
              approved |-> "USA, European Union, India"]]

\* dict.get(key, default)
Get(d, key, default) == IF key \in DOMAIN d THEN d[key] ELSE default

\* d.get(key) for a table of entries; <<>> stands for None and for {}, both false
GetEntry(d, key) == IF key \in DOMAIN d THEN d[key] ELSE <<>>

Truthy(entry) == DOMAIN entry # {}

\* the function of the additive is left out of the text
build_ins_description_without_function(entry, ins_num) ==
    LET name == Get(entry, "name", "INS " \o ins_num)
        approved == Get(entry, "approved", "various countries")
    IN  name \o " (INS " \o ins_num \o "). Approved in: " \o approved

build_ins_description(entry, ins_num) ==
    LET name == Get(entry, "name", "INS " \o ins_num)
        function == Get(entry, "function", "food additive")
        approved == Get(entry, "approved", "various countries")
    IN  name \o " (INS " \o ins_num \o "). is used as " \o function
             \o ". Approved in: " \o approved

-----------------------------------------------------------------------------
(* lookup_one *)

NoFoodData == "No food-specific data available."

\* re.sub(r'[\s\-]+', '', canonical)
RECURSIVE RemoveSpacesAndHyphens(_)
RemoveSpacesAndHyphens(s) ==
    IF Len(s) <= 1 THEN (IF s \in WhiteSpace \cup {"-"} THEN "" ELSE s)
    ELSE RemoveSpacesAndHyphens(Left(s)) \o RemoveSpacesAndHyphens(Right(s))

\* banned_lookup.get(canonical) or banned_lookup.get(re.sub(...)); "" is false
BannedFor(banned_lookup, canonical) ==
    LET a == Get(banned_lookup, canonical, "")
    IN  IF a # "" THEN a ELSE Get(banned_lookup, RemoveSpacesAndHyphens(canonical), "")

Record(orig, canonical, description, source, banned) ==
    [Ingredient |-> orig, Canonical_Name |-> canonical, Description |-> description,
     Sources |-> source, Banned_In |-> banned]

\* Case 1: INS/E codes
InsCase(out, ins_num, ins_data, banned_lookup) ==
    LET fromTable == GetEntry(ins_data, ins_num)
        entry == IF Truthy(fromTable) THEN fromTable ELSE GetEntry(FALLBACK_INS, ins_num)
        name_key == normalize_key(Get(entry, "name", ""))
    IN  IF Truthy(entry)
        THEN [out EXCEPT !.Description = build_ins_description(entry, ins_num),
                         !.Sources = IF Truthy(fromTable) THEN "Wikipedia INS" ELSE "Fallback",
                         !.Banned_In = IF name_key \in DOMAIN banned_lookup
                                       THEN banned_lookup[name_key] ELSE @]
        ELSE [out EXCEPT !.Description = NoFoodData]

\* the description is left as it was initialised
NothingFoundLeftEmpty(out) == out

\* Nothing found
NothingFound(out) == [out EXCEPT !.Description = NoFoodData]

\* the description is stored but the source tag is not
FoundUntagged(out, text, source) ==
    [out EXCEPT !.Description = Prefix(first_sentences(text, 2), MAX_DESC_CHARS)]

Found(out, text, source) ==
    [out EXCEPT !.Description = Prefix(first_sentences(text, 2), MAX_DESC_CHARS),
                !.Sources = source]

\* the summary stage is tried before the web search
WebCasesSummaryFirst(out, orig, net) ==
    LET ddg == ddg_api_snippet(orig, net)
        summary == wikipedia_summary(orig, net)
        page == wikipedia_fallback(orig, net)
        c1 == <<"wikipedia_summary">>
        c2 == Append(c1, "ddg_api_snippet")
        c3 == Append(c2, "wikipedia_fallback")
        f2 == summary.fetched \o ddg.fetched
    IN  IF summary.text # "" /\ looks_like_food_use(summary.text)
        THEN [out |-> Found(out, summary.text, "Wikipedia Summary"), calls |-> c1,
              fetched |-> summary.fetched]
        ELSE IF ddg.text # ""
        THEN [out |-> Found(out, ddg.text, "DuckDuckGo"), calls |-> c2, fetched |-> f2]
        ELSE IF page.text # ""
        THEN [out |-> Found(out, page.text, "Wikipedia (HTML Fallback)"), calls |-> c3,
              fetched |-> f2 \o page.fetched]
        ELSE [out |-> NothingFound(out), calls |-> c3, fetched |-> f2 \o page.fetched]

\* Cases 2-4 and "Nothing found": the adapters in order; calls lists the
\* adapters invoked, fetched the URLs requested, in order
WebCases(out, orig, net) ==
    LET ddg == ddg_api_snippet(orig, net)
        summary == wikipedia_summary(orig, net)
        inner == wikipedia_fallback(orig, net)
        last == wikipedia_fallback(orig, net)
        c2 == <<"ddg_api_snippet">>
        c3 == Append(c2, "wikipedia_summary")
        c3f == Append(c3, "wikipedia_fallback")
        f3 == ddg.fetched \o summary.fetched
    IN  IF ddg.text # ""
        THEN [out |-> Found(out, ddg.text, "DuckDuckGo"), calls |-> c2,
              fetched |-> ddg.fetched]
        ELSE IF summary.text # "" /\ looks_like_food_use(summary.text)
        THEN [out |-> Found(out, summary.text, "Wikipedia Summary"), calls |-> c3,
              fetched |-> f3]
        ELSE IF summary.text # "" /\ inner.text # ""
        THEN [out |-> Found(out, inner.text, "Wikipedia (HTML Fallback)"), calls |-> c3f,
              fetched |-> f3 \o inner.fetched]
        ELSE LET c4 == Append(IF summary.text # "" THEN c3f ELSE c3, "wikipedia_fallback")
                 f4 == (IF summary.text # "" THEN f3 \o inner.fetched ELSE f3) \o last.fetched
             IN  IF last.text # ""
                 THEN [out |-> Found(out, last.text, "Wikipedia (HTML Fallback)"),
                       calls |-> c4, fetched |-> f4]
                 ELSE [out |-> NothingFound(out), calls |-> c4, fetched |-> f4]

\* a code that is in no table goes on to the web stages
lookup_one_miss_falls_through(ingredient, ins_data, banned_lookup, net) ==
    LET orig == strip(ingredient)
        canonical == normalize_key(orig)
        out == Record(orig, canonical, "", "None", "None")
        ins_num == numeric_ins_from_token(orig)
        hit == InsCase(out, ins_num, ins_data, banned_lookup)
    IN  IF orig = "" THEN [out |-> out, calls |-> <<>>, fetched |-> <<>>]
        ELSE IF ins_num # "" /\ hit.Sources # "None"
        THEN [out |-> hit, calls |-> <<>>, fetched |-> <<>>]
        ELSE WebCases(out, orig, net)

lookup_one(ingredient, ins_data, banned_lookup, net) ==
    LET orig == strip(ingredient)
        canonical == normalize_key(orig)
        v == BannedFor(banned_lookup, canonical)
        out0 == Record(orig, canonical, "", "None", "None")
        out == IF v # "" THEN [out0 EXCEPT !.Banned_In = v] ELSE out0
        ins_num == numeric_ins_from_token(orig)
    IN  IF orig = "" THEN [out |-> out0, calls |-> <<>>, fetched |-> <<>>]
        ELSE IF ins_num # ""
        THEN [out |-> InsCase(out, ins_num, ins_data, banned_lookup),
              calls |-> <<>>, fetched |-> <<>>]
        ELSE WebCases(out, orig, net)

-----------------------------------------------------------------------------
(* Sample inputs: texts, site behaviours, regulatory tables *)

RECURSIVE Repeat(_, _)
Repeat(w, n) == IF n = 0 THEN "" ELSE w \o Repeat(w, n - 1)

FoodText == "Salt is used in cooking. It is a mineral. It is white."
CitedText == "Salt [1] is a  seasoning"
PlainText == "A perennial flowering plant native to Asia"
ShortText == "A plant."
LongText == Repeat("food ", LongRepeat)

Garbage == [kind |-> "garbage"]
Ddg(data) == [kind |-> "ddg", data |-> data]
Summary(extract) == [kind |-> "summary", extract |-> extract]
Html(paras) == [kind |-> "html", paras |-> paras]

Site(only, body) == [only |-> only, body |-> body]

DdgBodies ==
    {NoResponse, Garbage,
     Ddg([Abstract |-> FoodText]),
     Ddg([Abstract |-> PlainText, Answer |-> "",
          RelatedTopics |-> <<[Name |-> "Plants"], [Text |-> CitedText]>>]),
     Ddg([Abstract |-> PlainText]),
     Ddg([Answer |-> NoFoodData])}

SummaryBodies ==
    {NoResponse, Summary(""), Summary(FoodText), Summary(PlainText)}

PageBodies ==
    {NoResponse, Html(<<>>), Html(<<ShortText, "", PlainText>>),
     Html(<<ShortText, FoodText>>)}

Down == Site("", NoResponse)

Net(d, s, w) == [ddg |-> d, summary |-> s, wiki |-> w]

NetDown == Net(Down, Down, Down)

\* every endpoint answers every URL with food-related text
NetUp == Net(Site("", Ddg([Abstract |-> FoodText])), Site("", Summary(FoodText)),
             Site("", Html(<<FoodText>>)))

\* every site answers every URL alike
UniformNets ==
    {Net(Site("", d), Site("", s), Site("", w)) :
        d \in DdgBodies, s \in SummaryBodies, w \in PageBodies}

\* a site knows only one rewrite or variant, or answers with an unusable body
\* or with a text longer than MAX_DESC_CHARS
SpecialNets ==
    {Net(Site("salt seasoning", Ddg([Abstract |-> FoodText])), Down, Down),
     Net(Down, Site("turmeric", Summary(FoodText)), Down),
     Net(Down, Site("turmeric", Summary(PlainText)), Site("turmeric", Html(<<FoodText>>))),
     Net(Down, Down, Site("salts", Html(<<PlainText>>))),
     Net(Down, Site("", Garbage), Site("", Garbage)),
     Net(Site("", Ddg([Definition |-> LongText])), Down, Down),
     Net(Down, Site("", Summary(LongText)), Down),
     Net(Down, Down, Site("", Html(<<LongText>>)))}

Nets == UniformNets \cup SpecialNets

Ingredients ==
    {"salt", " Salt ", "  ", "", "turmeric powder", "E621", "ins 330", "E 999",
     "rice 2", "spices"}

LongName == Repeat("amine", LongRepeat)

InsTables ==
    {<<>>,
     [n \in {"621"} |-> [name |-> "MSG", function |-> "enhancer", approved |-> "EU."]],
     [n \in {"999"} |-> IF n = "999" THEN [name |-> LongName] ELSE <<>>],
     [n \in {"330"} |-> <<>>]}

BannedTables ==
    {<<>>, [k \in {"salt", "monosodium glutamate"} |-> "Atlantis"]}

\* the calls of lookup_one examined: every ingredient against every net with
\* the tables main passes or a banned table, and against every table
Calls ==
    [ingredient : Ingredients, ins_data : {<<>>}, banned_lookup : BannedTables, net : Nets]
    \cup [ingredient : Ingredients, ins_data : InsTables, banned_lookup : BannedTables,
          net : {NetDown, NetUp}]

-----------------------------------------------------------------------------
(* Idle values of the variables a specification does not use *)

EmptyOut == Record("", "", "", "", "")
NoReturn == [out |-> EmptyOut, calls |-> <<>>, fetched |-> <<>>]
NoCall == [ingredient |-> "", ins_data |-> <<>>, banned_lookup |-> <<>>, net |-> NetDown]
NothingPrinted == [kind |-> "none"]

FetchIdle ==
    /\ tries = 0 /\ attempt = 0 /\ fetch_pc = "off" /\ requests = 0
    /\ outcomes = <<>> /\ waits = <<>> /\ slept = 0 /\ gaps = <<>>
    /\ last_exc = FALSE /\ fetch_ret = "pending"

CallIdle == call = NoCall /\ call_pc = "off" /\ call_ret = NoReturn

MainIdle ==
    /\ stdin = [kind |-> "none"] /\ main_pc = "off" /\ ingredients = <<>>
    /\ submitted = 0 /\ fut = <<>> /\ ret = <<>> /\ results = <<>>
    /\ printed = NothingPrinted

NoAnswer == [status |-> 0, results |-> <<>>]
NoResponseYet == [status |-> 0]

ServerIdle ==
    /\ cache = <<>> /\ srv_pc = "off" /\ served = 0 /\ posted = <<>>
    /\ cached_results = <<>> /\ missing = <<>> /\ ai_posts = <<>>
    /\ ai_pc = "off" /\ model_calls = 0 /\ ai_resp = NoAnswer
    /\ response = NoResponseYet

-----------------------------------------------------------------------------
(* get_with_retries: for attempt in range(tries): try requests.get ...      *)

\* time.sleep(1.2 * (attempt + 1)), in tenths of a second
SleepTenths(a) == 12 * (a + 1)

\* one iteration too many
InRangeInclusive(a, n) == a <= n

\* range(tries) still has a value for the loop variable
InRange(a, n) == a < n

InitFetch ==
    /\ tries \in 0..MaxTries
    /\ attempt = 0
    /\ fetch_pc = "request"
    /\ requests = 0
    /\ outcomes = <<>>
    /\ waits = <<>>
    /\ slept = 0
    /\ gaps = <<>>
    /\ last_exc = FALSE
    /\ fetch_ret = "pending"
    /\ CallIdle /\ MainIdle /\ ServerIdle

\* r = requests.get(...); status 200 returns r
RequestOk ==
    /\ fetch_pc = "request" /\ InRange(attempt, tries)
    /\ requests' = requests + 1
    /\ outcomes' = Append(outcomes, "ok")
    /\ gaps' = IF requests > 0 THEN Append(gaps, slept) ELSE gaps
    /\ slept' = 0
    /\ fetch_ret' = "response"
    /\ fetch_pc' = "done"
    /\ UNCHANGED <<tries, attempt, waits, last_exc, callVars, mainVars, serverVars>>

\* r = requests.get(...); status is not 200: next iteration, no sleep
RequestBadStatus ==
    /\ fetch_pc = "request" /\ InRange(attempt, tries)
    /\ requests' = requests + 1
    /\ outcomes' = Append(outcomes, "status")
    /\ gaps' = IF requests > 0 THEN Append(gaps, slept) ELSE gaps
    /\ slept' = 0
    /\ attempt' = attempt + 1
    /\ UNCHANGED <<tries, fetch_pc, waits, last_exc, fetch_ret, callVars, mainVars, serverVars>>

\* requests.get raises (connection error or timeout): last_exc = e, then sleep
RequestRaises ==
    /\ fetch_pc = "request" /\ InRange(attempt, tries)
    /\ \E o \in {"exception", "timeout"} : outcomes' = Append(outcomes, o)
    /\ requests' = requests + 1
    /\ gaps' = IF requests > 0 THEN Append(gaps, slept) ELSE gaps
    /\ slept' = 0
    /\ last_exc' = TRUE
    /\ fetch_pc' = "sleep"
    /\ UNCHANGED <<tries, attempt, waits, fetch_ret, callVars, mainVars, serverVars>>

\* time.sleep(1.2 * (attempt + 1)) in the except branch, then next iteration
Sleep ==
    /\ fetch_pc = "sleep"
    /\ waits' = Append(waits, SleepTenths(attempt))
    /\ slept' = slept + SleepTenths(attempt)
    /\ attempt' = attempt + 1
    /\ fetch_pc' = "request"
    /\ UNCHANGED <<tries, requests, outcomes, gaps, last_exc, fetch_ret, callVars, mainVars, serverVars>>

\* the loop is exhausted: return None
ReturnNone ==
    /\ fetch_pc = "request" /\ ~InRange(attempt, tries)
    /\ fetch_ret' = "None"
    /\ fetch_pc' = "done"
    /\ UNCHANGED <<tries, attempt, requests, outcomes, waits, slept, gaps, last_exc,
                   callVars, mainVars, serverVars>>

NextFetch == RequestOk \/ RequestBadStatus \/ RequestRaises \/ Sleep \/ ReturnNone

SpecFetch == InitFetch /\ [][NextFetch]_vars

-----------------------------------------------------------------------------
(* One call of lookup_one on arguments drawn from the samples *)

InitLookup ==
    /\ call \in Calls
    /\ call_pc = "called"
    /\ call_ret = NoReturn
    /\ FetchIdle /\ MainIdle /\ ServerIdle

LookupReturns ==
    /\ call_pc = "called"
    /\ call_ret' = lookup_one(call.ingredient, call.ins_data, call.banned_lookup, call.net)
    /\ call_pc' = "returned"
    /\ UNCHANGED <<call, fetchVars, mainVars, serverVars>>

NextLookup == LookupReturns

SpecLookup == InitLookup /\ [][NextLookup]_vars

-----------------------------------------------------------------------------
(* main *)

BatchIngredients == {"salt", " salt", "  ", "tea"}

\* the network as one invocation of lookup_one may find it
BatchNets == {NetDown, NetUp}

\* every list of at most n ingredients
ListsUpTo(n) == UNION {[1..k -> BatchIngredients] : k \in 0..n}

\* one list with more entries than the pool has workers
Crowd == [i \in 1..(MAX_WORKERS + 1) |-> "E621"]

\* what main can find on stdin: text that is not JSON, JSON that is not an
\* object, an object with or without the key "ingredients", or nothing, in
\* which case input() raises EOFError or returns the line typed
Inputs ==
    {[kind |-> "invalid"], [kind |-> "not_object"], [kind |-> "object", data |-> <<>>]}
    \cup {[kind |-> "object", data |-> [ingredients |-> l]] : l \in ListsUpTo(MaxBatch)}
    \cup {[kind |-> "object", data |-> [ingredients |-> Crowd]]}
    \cup {[kind |-> "nothing", eof |-> TRUE, line |-> ""]}
    \cup {[kind |-> "nothing", eof |-> FALSE, line |-> l] : l \in {"", " salt, ,E621 ", "salt"}}

NonBlank(w) == strip(w) # ""

\* [w.strip() for w in user.split(",") if w.strip()]
TypedIngredients(line) ==
    LET kept == SelectSeq(split(strip(line), ","), NonBlank)
    IN  [i \in 1..Len(kept) |-> strip(kept[i])]

InitMain ==
    /\ stdin \in Inputs
    /\ main_pc = "read"
    /\ ingredients = <<>>
    /\ submitted = 0
    /\ fut = <<>>
    /\ ret = <<>>
    /\ results = <<>>
    /\ printed = NothingPrinted
    /\ FetchIdle /\ CallIdle /\ ServerIdle

\* json.loads or input() raises: print {"error": ...} and return
ReadFails ==
    /\ main_pc = "read"
    /\ stdin.kind = "invalid" \/ (stdin.kind = "nothing" /\ stdin.eof)
    /\ printed' = [kind |-> "error"]
    /\ main_pc' = "done"
    /\ UNCHANGED <<stdin, ingredients, submitted, fut, ret, results, fetchVars, callVars, serverVars>>

\* the JSON value has no method get: data.get raises outside the try
ReadCrashes ==
    /\ main_pc = "read"
    /\ stdin.kind = "not_object"
    /\ main_pc' = "crashed"
    /\ UNCHANGED <<stdin, ingredients, submitted, fut, ret, results, printed,
                   fetchVars, callVars, serverVars>>

\* ingredients = data.get("ingredients", [])
ReadIngredients ==
    /\ main_pc = "read"
    /\ stdin.kind = "object" \/ (stdin.kind = "nothing" /\ ~stdin.eof)
    /\ ingredients' = IF stdin.kind = "nothing" THEN TypedIngredients(stdin.line)
                      ELSE Get(stdin.data, "ingredients", <<>>)
    /\ fut' = [i \in 1..Len(ingredients') |-> "new"]
    /\ ret' = [i \in 1..Len(ingredients') |-> NoReturn]
    /\ main_pc' = "submit"
    /\ UNCHANGED <<stdin, submitted, results, printed, fetchVars, callVars, serverVars>>

\* as many workers as ingredients, whatever MAX_WORKERS is
MaxWorkersUnbounded(n) == IF n = 0 THEN 1 ELSE n

\* max_workers = min(MAX_WORKERS, len(ingredients) or 1)
MaxWorkers(n) ==
    LET m == IF n = 0 THEN 1 ELSE n IN IF MAX_WORKERS < m THEN MAX_WORKERS ELSE m

\* a worker that ran an item stays occupied by it
RunningNeverFreed == {i \in DOMAIN fut : fut[i] \in {"running", "done", "collected"}}

Running == {i \in DOMAIN fut : fut[i] = "running"}

\* ex.submit(lookup_one, ing, ins_data, banned_lookup) for the next ingredient
Submit ==
    /\ main_pc = "submit"
    /\ submitted < Len(ingredients)
    /\ submitted' = submitted + 1
    /\ fut' = [fut EXCEPT ![submitted + 1] = "queued"]
    /\ UNCHANGED <<stdin, main_pc, ingredients, ret, results, printed, fetchVars, callVars, serverVars>>

\* the dict of futures is built: for fut in as_completed(futures)
AllSubmitted ==
    /\ main_pc = "submit"
    /\ submitted = Len(ingredients)
    /\ main_pc' = "collect"
    /\ UNCHANGED <<stdin, ingredients, submitted, fut, ret, results, printed,
                   fetchVars, callVars, serverVars>>

\* a free worker takes the oldest queued work item
Start(i) ==
    /\ fut[i] = "queued"
    /\ \A j \in 1..(i - 1) : fut[j] # "queued"
    /\ Cardinality(Running) < MaxWorkers(Len(ingredients))
    /\ fut' = [fut EXCEPT ![i] = "running"]
    /\ UNCHANGED <<stdin, main_pc, ingredients, submitted, ret, results, printed,
                   fetchVars, callVars, serverVars>>

\* the strings a batch can hold: those of a list read from JSON and those of
\* a typed line
Dispatched == BatchIngredients \cup {"E621"}

\* what lookup_one(ing, {}, {}) returns for each string a batch can hold under
\* each network, computed once
Lookups == [ing \in Dispatched, net \in BatchNets |-> lookup_one(ing, <<>>, <<>>, net)]

\* the worker's lookup_one(ing, {}, {}) returns, whatever the network did
Finish(i) ==
    /\ fut[i] = "running"
    /\ \E net \in BatchNets : ret' = [ret EXCEPT ![i] = Lookups[ingredients[i], net]]
    /\ fut' = [fut EXCEPT ![i] = "done"]
    /\ UNCHANGED <<stdin, main_pc, ingredients, submitted, results, printed,
                   fetchVars, callVars, serverVars>>

\* as_completed yields a finished future: results.append(fut.result())
Collect(i) ==
    /\ main_pc = "collect"
    /\ fut[i] = "done"
    /\ results' = Append(results, ret[i].out)
    /\ fut' = [fut EXCEPT ![i] = "collected"]
    /\ UNCHANGED <<stdin, main_pc, ingredients, submitted, ret, printed, fetchVars, callVars, serverVars>>

\* res_map = {r["Ingredient"]: r for r in results}: the last record wins
res_map(rs) ==
    [k \in {rs[j].Ingredient : j \in DOMAIN rs} |->
        rs[CHOOSE j \in DOMAIN rs :
              /\ rs[j].Ingredient = k
              /\ \A m \in DOMAIN rs : rs[m].Ingredient = k => m <= j]]

\* normalize_key(i) of each string a batch can hold, computed once
Canonical == [i \in Dispatched |-> normalize_key(i)]

NoData(i) ==
    [Ingredient |-> i, Canonical_Name |-> Canonical[i], Description |-> "No data",
     Sources |-> "None"]

\* the records in the order of completion, not reordered
OrderedAsCompleted(rs, ings) == rs

\* ordered = [res_map.get(i, {... "No data" ...}) for i in ingredients]
Ordered(rs, ings) ==
    LET m == res_map(rs)
    IN  [p \in DOMAIN ings |-> IF ings[p] \in DOMAIN m THEN m[ings[p]] ELSE NoData(ings[p])]

\* every future was consumed: reorder and print {"results": ordered}
PrintResults ==
    /\ main_pc = "collect"
    /\ \A i \in DOMAIN fut : fut[i] = "collected"
    /\ printed' = [kind |-> "results", results |-> Ordered(results, ingredients)]
    /\ main_pc' = "done"
    /\ UNCHANGED <<stdin, ingredients, submitted, fut, ret, results, fetchVars, callVars, serverVars>>

Next ==
    \/ ReadFails
    \/ ReadCrashes
    \/ ReadIngredients
    \/ Submit
    \/ AllSubmitted
    \/ \E i \in DOMAIN fut : Start(i)
    \/ \E i \in DOMAIN fut : Finish(i)
    \/ \E i \in DOMAIN fut : Collect(i)
    \/ PrintResults

Init == InitMain

Spec == Init /\ [][Next]_vars

\* the steps of the main thread
MainThread ==
    \/ ReadFails
    \/ ReadCrashes
    \/ ReadIngredients
    \/ Submit
    \/ AllSubmitted
    \/ \E i \in DOMAIN fut : Collect(i)
    \/ PrintResults

\* the steps of the pool's worker threads
Workers ==
    \/ \E i \in DOMAIN fut : Start(i)
    \/ \E i \in DOMAIN fut : Finish(i)

\* the main thread and the pool's threads are scheduled fairly; a request
\* ends by its timeout and a sleep by its delay, so a running lookup_one
\* returns
SpecLive == Init /\ [][Next]_vars /\ WF_vars(MainThread) /\ WF_vars(Workers)

-----------------------------------------------------------------------------
(* Properties of main *)

Emitted == main_pc = "done" /\ printed.kind = "results"

\* the positions of the input list
Positions == DOMAIN ingredients

\* C1: for a non-empty input list and whatever the completion order, main
\* emits exactly len(input) records, and the record at position i carries
\* the string at input position i as its Ingredient, duplicates included.
C1_OutputFollowsInput ==
    (Emitted /\ ingredients # <<>>) =>
        /\ Len(printed.results) = Len(ingredients)
        /\ \A i \in Positions : printed.results[i].Ingredient = ingredients[i]

\* a list with the same string at two positions was emitted after the two
\* workers completed in the reverse of input order with different records
C1_Witness ==
    /\ Emitted
    /\ Len(ingredients) >= 2
    /\ ingredients[1] = ingredients[2]
    /\ Len(results) >= 2
    /\ results[1] = ret[2].out /\ results[2] = ret[1].out
    /\ ret[1].out # ret[2].out

\* C2: main never substitutes the "No data" record, also for entries with
\* leading or trailing white space or of white space only: every position
\* finds its ingredient in the completed set and every emitted record is one
\* that a lookup_one invocation returned.
C2_NeverNoData ==
    Emitted =>
        \A i \in Positions :
            /\ ingredients[i] \in DOMAIN res_map(results)
            /\ printed.results[i].Description # "No data"
            /\ \E j \in Positions : printed.results[i] = ret[j].out

\* C3: when a string free of surrounding white space appears at two
\* positions, two invocations are dispatched and each of the two positions
\* holds the record its own invocation returned.
C3_OwnRecordPerPosition ==
    Emitted =>
        \A i, j \in Positions :
            (i # j /\ ingredients[i] = ingredients[j] /\ strip(ingredients[i]) = ingredients[i])
                => /\ submitted = Len(ingredients)
                   /\ fut[i] = "collected" /\ fut[j] = "collected"
                   /\ printed.results[i] = ret[i].out
                   /\ printed.results[j] = ret[j].out

\* the list read from an object is empty or the key is missing
EmptyBatch ==
    /\ stdin.kind = "object" \/ (stdin.kind = "nothing" /\ ~stdin.eof)
    /\ main_pc # "read"
    /\ ingredients = <<>>

\* C10: an empty batch (list empty or missing) is surfaced as a structured
\* error: main does not emit a results payload for it.
C10_EmptyBatchIsAnError ==
    (main_pc = "done" /\ EmptyBatch) => printed.kind = "error"

-----------------------------------------------------------------------------
(* Properties of lookup_one *)

Returned == call_pc = "returned"

Orig == strip(call.ingredient)
Out == call_ret.out

\* the input matches the additive-code pattern
IsCode == numeric_ins_from_token(Orig) # ""

\* the code is in the supplied table or in the built-in one
InATable ==
    LET n == numeric_ins_from_token(Orig)
    IN  Truthy(GetEntry(call.ins_data, n)) \/ Truthy(GetEntry(FALLBACK_INS, n))

C7_DescriptionBoundedAndEndsWithPeriod ==
    (Returned /\ Orig # "") =>
        /\ Len(Out.Description) <= MAX_DESC_CHARS
        /\ Out.Description # NoFoodData => endswith(Out.Description, ".")

\* C8: for every non-empty input string, one of white space only included,
\* the description of the record is never empty.
C8_DescriptionNeverEmpty ==
    (Returned /\ call.ingredient # "") => Out.Description # ""

\* what the three adapters return for the input of the call
DdgText == ddg_api_snippet(Orig, call.net).text
SummaryText == wikipedia_summary(Orig, call.net).text
PageText == wikipedia_fallback(Orig, call.net).text

Shortened(text) == Prefix(first_sentences(text, 2), MAX_DESC_CHARS)

\* the source tag names the stage whose text the description is
TagNamesStage ==
    /\ Out.Sources = "DuckDuckGo" =>
            DdgText # "" /\ Out.Description = Shortened(DdgText)
    /\ Out.Sources = "Wikipedia Summary" =>
            /\ SummaryText # "" /\ looks_like_food_use(SummaryText)
            /\ Out.Description = Shortened(SummaryText)
    /\ Out.Sources = "Wikipedia (HTML Fallback)" =>
            PageText # "" /\ Out.Description = Shortened(PageText)
    /\ Out.Sources \in {"Fallback", "Wikipedia INS"} => IsCode /\ InATable
    /\ Out.Sources \in {"DuckDuckGo", "Wikipedia Summary", "Wikipedia (HTML Fallback)",
                        "Fallback", "Wikipedia INS", "None"}

\* no stage supplied a description: blank input, a code in no table, or
\* every adapter came back empty handed
NoStageHit ==
    \/ Orig = ""
    \/ IsCode /\ ~InATable
    \/ /\ ~IsCode
       /\ DdgText = ""
       /\ ~(SummaryText # "" /\ looks_like_food_use(SummaryText))
       /\ PageText = ""

\* C9 as stated: the tag names the stage that produced the description, and
\* it is "None" if and only if the description is empty or the sentinel.
C9_TagNoneIffNoDescription ==
    Returned =>
        /\ TagNamesStage
        /\ Out.Sources = "None" <=> Out.Description \in {"", NoFoodData}

\* C9 amended: the tag names the stage that produced the description; it is
\* "None" if and only if no stage supplied one, and then the description is
\* empty or the sentinel (a stage whose source returns the sentinel's own
\* words keeps its tag).
C9_TagNoneIffNoStageHit ==
    Returned =>
        /\ TagNamesStage
        /\ Out.Sources = "None" <=> NoStageHit
        /\ Out.Sources = "None" => Out.Description \in {"", NoFoodData}

\* the web search returned the words of the sentinel and the record is tagged
C9_Witness ==
    /\ Returned
    /\ Out.Sources = "DuckDuckGo"
    /\ Out.Description = NoFoodData

-----------------------------------------------------------------------------
(* Properties of get_with_retries *)

Raised(o) == o \in {"exception", "timeout"}

\* the call is over and no request succeeded
AllAttemptsFailed == fetch_pc = "done" /\ \A k \in DOMAIN outcomes : outcomes[k] # "ok"

NonDecreasing(seq) == \A k \in 1..(Len(seq) - 1) : seq[k] <= seq[k + 1]

\* C6 as stated: with every attempt failing, by exception, timeout or
\* non-success status in any mix, exactly tries requests are made, None is
\* returned, and the delays between consecutive attempts never decrease.
C6_ExactlyNAttemptsNonDecreasingDelays ==
    AllAttemptsFailed =>
        /\ requests = tries
        /\ fetch_ret = "None"
        /\ NonDecreasing(gaps)

\* an attempt that fails by its status follows one that raised
StatusAfterRaise ==
    \E j, k \in DOMAIN outcomes :
        j < k /\ k < Len(outcomes) /\ Raised(outcomes[j]) /\ outcomes[k] = "status"

\* C6 amended: with every attempt failing, exactly tries requests are made
\* and None is returned; the delay after attempt k is 1.2 * k seconds when
\* the attempt raised and none when it failed by its status, so the delays
\* never decrease unless a status failure follows an attempt that raised.
C6_ExactlyNAttemptsDelayPerFailure ==
    AllAttemptsFailed =>
        /\ requests = tries
        /\ fetch_ret = "None"
        /\ Len(gaps) = (IF tries = 0 THEN 0 ELSE tries - 1)
        /\ \A k \in DOMAIN gaps : gaps[k] = (IF Raised(outcomes[k]) THEN 12 * k ELSE 0)
        /\ ~StatusAfterRaise => NonDecreasing(gaps)

\* three attempts that all raised, with waits of 1.2 s and 2.4 s between them
C6_Witness ==
    /\ AllAttemptsFailed
    /\ tries = 3
    /\ \A k \in DOMAIN outcomes : Raised(outcomes[k])
    /\ gaps = <<12, 24>>
    /\ fetch_ret = "None"

-----------------------------------------------------------------------------
(* Total network failure in a batch *)

Finished(i) == fut[i] \in {"done", "collected"}

\* the invocation for position i made requests and none got a response
TotalFailure(i) ==
    /\ Finished(i)
    /\ ret[i].fetched # <<>>
    /\ \A k \in DOMAIN ret[i].fetched : ~ret[i].fetched[k].got

\* C5: an invocation all of whose fetches get no response returns the
\* sentinel description with source None, and the batch neither aborts nor
\* loses a record: main still emits one record per input.
C5_TotalFailureIsNotFatal ==
    /\ \A i \in DOMAIN fut :
          TotalFailure(i) =>
              /\ ret[i].out.Description = NoFoodData
              /\ ret[i].out.Sources = "None"
    /\ main_pc = "crashed" => stdin.kind = "not_object"
    /\ (main_pc = "done" /\ \E i \in DOMAIN fut : TotalFailure(i)) =>
          /\ printed.kind = "results"
          /\ Len(printed.results) = Len(ingredients)

\* one invocation failed totally, its sibling resolved from the web search,
\* and both records were emitted
C5_Witness ==
    /\ Emitted
    /\ \E i, j \in DOMAIN fut :
          /\ TotalFailure(i)
          /\ ret[j].out.Sources = "DuckDuckGo"
          /\ printed.results[i].Description = NoFoodData
          /\ printed.results[j].Sources = "DuckDuckGo"

-----------------------------------------------------------------------------
(* Properties of the regulatory tables *)

\* the entry of the code in the supplied table, and in the built-in one
ExternalEntry == GetEntry(call.ins_data, numeric_ins_from_token(Orig))
CuratedEntry == GetEntry(FALLBACK_INS, numeric_ins_from_token(Orig))

\* C11: for a code that is in a table the description is built from the
\* name, function and jurisdictions of the entry; the source is "Wikipedia
\* INS" exactly when the entry came from the supplied table, which takes
\* precedence, and "Fallback" exactly when it came from the built-in one;
\* "E621" with the built-in table alone gives "Fallback" and a description
\* with "Monosodium glutamate" and "flavour enhancer".
C11_TableHitDescriptionAndTag ==
    (Returned /\ IsCode /\ InATable) =>
        LET entry == IF Truthy(ExternalEntry) THEN ExternalEntry ELSE CuratedEntry
        IN  /\ \A f \in DOMAIN entry : contains(Out.Description, entry[f])
            /\ "function" \notin DOMAIN entry => contains(Out.Description, "food additive")
            /\ Out.Sources = "Wikipedia INS" <=> Truthy(ExternalEntry)
            /\ Out.Sources = "Fallback" <=> ~Truthy(ExternalEntry)
            /\ (Orig = "E621" /\ call.ins_data = <<>>) =>
                   /\ Out.Sources = "Fallback"
                   /\ contains(Out.Description, "Monosodium glutamate")
                   /\ contains(Out.Description, "flavour enhancer")

\* "E621" was looked up with the built-in table alone
C11_Witness ==
    /\ Returned
    /\ call.ingredient = "E621" /\ call.ins_data = <<>>
    /\ Out.Sources = "Fallback"
    /\ contains(Out.Description, "flavour enhancer")

-----------------------------------------------------------------------------
(* Properties of the worker pool *)

\* min(6, number of inputs)
PoolLimit == IF Len(ingredients) < MAX_WORKERS THEN Len(ingredients) ELSE MAX_WORKERS

\* a position is taken by a worker from the queue only, runs to its return,
\* and once returned is never run again
OneRunPerPosition ==
    \A i \in DOMAIN fut :
        /\ (fut'[i] = "running" /\ fut[i] # "running") => fut[i] = "queued"
        /\ fut[i] = "queued" => fut'[i] \in {"queued", "running"}
        /\ fut[i] = "running" => fut'[i] \in {"running", "done"}
        /\ fut[i] \in {"done", "collected"} => fut'[i] \in {"done", "collected"}

\* C12: at every moment at most min(6, number of inputs) invocations of
\* lookup_one are in progress; each position is dispatched exactly once and
\* a worker runs its invocation to the end before another one is taken.
C12_BoundedPoolOneRunEach ==
    /\ [](Cardinality(Running) <= PoolLimit)
    /\ [][OneRunPerPosition]_vars
    /\ [](Emitted => \A i \in DOMAIN fut : fut[i] = "collected")

\* all six workers are busy and a seventh ingredient waits in the queue
C12_Witness ==
    /\ Cardinality(Running) = MAX_WORKERS
    /\ \E i \in DOMAIN fut : fut[i] = "queued"

-----------------------------------------------------------------------------
(* Properties of the query variants *)

NoDuplicates(seq) == \A j, k \in DOMAIN seq : j # k => seq[j] # seq[k]

\* the URLs that lookup_one requested from one endpoint, in order
RECURSIVE RequestedFrom(_, _)
RequestedFrom(fetched, site) ==
    IF fetched = <<>> THEN <<>>
    ELSE (IF fetched[1].site = site THEN <<fetched[1].q>> ELSE <<>>)
             \o RequestedFrom(Tail(fetched), site)

\* C13: the variants of a trimmed phrase are free of duplicates, so the
\* summary adapter, which lookup_one runs once, requests no variant twice.
C13_VariantsDeduplicated ==
    Returned =>
        /\ NoDuplicates(normalize_query_variants(Orig))
        /\ NoDuplicates(RequestedFrom(call_ret.fetched, "summary"))

-----------------------------------------------------------------------------
(* Properties of the order of the stages *)

Calls_ == call_ret.calls

Called(adapter) == \E k \in DOMAIN Calls_ : Calls_[k] = adapter

FoodSummary == SummaryText # "" /\ looks_like_food_use(SummaryText)

\* C14: the stages run in strict priority order and stop at the first hit:
\* the summary adapter runs only after the web search returned nothing, the
\* page adapter only after the summary adapter returned nothing or an
\* extract that is not about food; a web-search hit gives "DuckDuckGo" and
\* no encyclopedia request, a food-related summary gives "Wikipedia Summary"
\* and no page request.
C14_StagesInPriorityOrder ==
    (Returned /\ Orig # "" /\ ~IsCode) =>
        /\ Len(Calls_) >= 1 /\ Calls_[1] = "ddg_api_snippet"
        /\ \A k \in DOMAIN Calls_ :
              /\ Calls_[k] = "ddg_api_snippet" => k = 1
              /\ Calls_[k] = "wikipedia_summary" => k = 2
              /\ Calls_[k] = "wikipedia_fallback" => k >= 3
        /\ Called("wikipedia_summary") => DdgText = ""
        /\ Called("wikipedia_fallback") =>
              /\ DdgText = "" /\ Called("wikipedia_summary")
              /\ ~FoodSummary
        /\ DdgText # "" =>
              /\ Out.Sources = "DuckDuckGo"
              /\ Calls_ = <<"ddg_api_snippet">>
              /\ RequestedFrom(call_ret.fetched, "summary") = <<>>
              /\ RequestedFrom(call_ret.fetched, "wiki") = <<>>
        /\ (DdgText = "" /\ FoodSummary) =>
              /\ Out.Sources = "Wikipedia Summary"
              /\ Calls_ = <<"ddg_api_snippet", "wikipedia_summary">>
              /\ RequestedFrom(call_ret.fetched, "wiki") = <<>>
        /\ (DdgText = "" /\ ~FoodSummary /\ PageText # "") =>
              /\ Out.Sources = "Wikipedia (HTML Fallback)"
              /\ Calls_[Len(Calls_)] = "wikipedia_fallback"

\* the web search came back empty and a food-related summary ended the chain
\* although the page endpoint would have answered
C14_Witness ==
    /\ Returned
    /\ Out.Sources = "Wikipedia Summary"
    /\ Calls_ = <<"ddg_api_snippet", "wikipedia_summary">>
    /\ PageText # ""

-----------------------------------------------------------------------------
(* Properties of the classification as an additive code *)

\* the input begins with an "E" or "INS" token followed by digits
LeadingCode == InsMatchAt(Orig, 1) # ""

\* C15: only an input that begins with an "E" or "INS" token followed by
\* digits is treated as an additive code; a name in which an "e" or "ins" is
\* followed by digits further on goes to the web-search stage.
C15_OnlyLeadingTokenIsACode ==
    (Returned /\ Orig # "") =>
        /\ IsCode => LeadingCode
        /\ ~LeadingCode => (Len(Calls_) >= 1 /\ Calls_[1] = "ddg_api_snippet")

-----------------------------------------------------------------------------
(* Properties of the waits of get_with_retries *)

\* C16: get_with_retries sleeps only between two attempts: every wait is
\* followed by a further attempt, so at most tries - 1 waits occur and none
\* follows the final attempt.
C16_SleepOnlyBetweenAttempts ==
    /\ fetch_pc = "sleep" => attempt + 1 < tries
    /\ Len(waits) <= (IF tries = 0 THEN 0 ELSE tries - 1)

-----------------------------------------------------------------------------
(* Properties of the number of adapter runs *)

Runs(adapter) == Cardinality({k \in DOMAIN Calls_ : Calls_[k] = adapter})

\* C17: one lookup_one call runs each adapter at most once; the page adapter
\* runs either as the fall-through from a summary that is not about food or
\* as the last resort, never both.
C17_EachAdapterAtMostOnce ==
    Returned =>
        /\ Runs("ddg_api_snippet") <= 1
        /\ Runs("wikipedia_summary") <= 1
        /\ Runs("wikipedia_fallback") <= 1

-----------------------------------------------------------------------------
(* Properties of the order and number of the query variants *)

Variants == normalize_query_variants(Orig)

KnownSuffixes == {suffixes[i] : i \in DOMAIN suffixes}

\* v is the phrase without a trailing " " + suffix, whatever the case
SuffixStripped(v, phrase) ==
    /\ Len(v) < Len(phrase)
    /\ v = SubSeq(phrase, 1, Len(v))
    /\ \E s \in KnownSuffixes :
           lower(SubSeq(phrase, Len(v) + 1, Len(phrase))) = " " \o s

\* v is the phrase with a final "s" added or removed
Toggled(v, phrase) == v = phrase \o "s" \/ v \o "s" = phrase

\* the URLs are those of the first n variants, in order
IsPrefixOfVariants(urls) ==
    /\ Len(urls) <= Len(Variants)
    /\ \A k \in DOMAIN urls : urls[k] = SpacesToUnderscores(Variants[k])

\* C19: the first variant of a trimmed phrase is the phrase itself, the
\* suffix-stripped forms follow, the one plural/singular toggle comes last,
\* and there are at most (number of known suffixes + 1) variants; the summary
\* adapter requests them in that order.
C19_VariantsOrderedAndBounded ==
    Returned =>
        /\ Variants[1] = Orig
        /\ Len(Variants) >= 2
        /\ Len(Variants) <= Cardinality(KnownSuffixes) + 1
        /\ Toggled(Variants[Len(Variants)], Orig)
        /\ \A k \in 2..(Len(Variants) - 1) : SuffixStripped(Variants[k], Orig)
        /\ IsPrefixOfVariants(RequestedFrom(call_ret.fetched, "summary"))

C19_Witness ==
    /\ Returned /\ Orig = "turmeric powder"
    /\ Len(Variants) = 4
    /\ Variants[2] = "turmeric"
    /\ Len(RequestedFrom(call_ret.fetched, "summary")) = 4

-----------------------------------------------------------------------------
(* Termination of a batch *)

\* the retry count get_with_retries is given for a URL of the endpoint
Retries(site) == IF site = "ddg" THEN DDG_RETRY ELSE WIKI_RETRY

\* the most attempts the requests of one lookup_one can have made
RECURSIVE AttemptBudget(_)
AttemptBudget(fetched) ==
    IF fetched = <<>> THEN 0
    ELSE Retries(fetched[1].site) + AttemptBudget(Tail(fetched))

\* the web search tries its queries once, the summary adapter the variants
\* once, the page adapter the variants at most twice
MaxAttempts(ingredient) ==
    LET v == Len(normalize_query_variants(strip(ingredient)))
    IN  Len(DdgQueries(ingredient)) * DDG_RETRY + v * WIKI_RETRY + 2 * v * WIKI_RETRY

AttemptsBounded ==
    \A i \in DOMAIN ret :
        fut[i] \in {"done", "collected"} =>
            /\ Len(RequestedFrom(ret[i].fetched, "ddg")) <= Len(DdgQueries(ingredients[i]))
            /\ AttemptBudget(ret[i].fetched) <= MaxAttempts(ingredients[i])

\* a running worker can return whatever the state of the other items
NoWorkerWaits == \A i \in DOMAIN fut : fut[i] = "running" => ENABLED Finish(i)

Completed ==
    /\ Emitted
    /\ \A i \in DOMAIN fut : fut[i] = "collected"
    /\ Len(printed.results) = Len(ingredients)

\* C18: under fair scheduling and whatever the network does, a batch that
\* was read completes every item and emits its output; every lookup_one makes
\* a bounded number of fetch attempts and no running worker waits on another.
C18_EveryBatchCompletes ==
    /\ []AttemptsBounded
    /\ []NoWorkerWaits
    /\ (main_pc = "submit") ~> Completed

\* a batch larger than the pool completed, and so did a batch with an item
\* whose every request failed
C18_Witness ==
    /\ Completed
    /\ \/ Len(ingredients) > MAX_WORKERS
       \/ \E i \in Positions :
              /\ Len(ret[i].fetched) >= Len(DdgQueries(ingredients[i])) + 2
              /\ \A k \in DOMAIN ret[i].fetched : ~ret[i].fetched[k].got

-----------------------------------------------------------------------------
(* The AI service (src/server/aimodel.py)                                   *)

\* Python None where a string or a number could stand
None == "<None>"

\* Python "a or b" for a string or None
Or(a, b) == IF a = None \/ a = "" THEN b ELSE a

\* the position of the last occurrence of k in t (there is one)
LastIndexOf(t, k) ==
    CHOOSE i \in 1..(Len(t) - Len(k) + 1) :
        /\ SubSeq(t, i, i + Len(k) - 1) = k
        /\ \A j \in (i + 1)..(Len(t) - Len(k) + 1) : SubSeq(t, j, j + Len(k) - 1) # k

\* Python s.replace(old, new)
RECURSIVE replace(_, _, _)
replace(s, old, new) ==
    IF ~contains(s, old) THEN s
    ELSE LET i == IndexOf(s, old)
         IN  SubSeq(s, 1, i - 1) \o new \o replace(SubSeq(s, i + Len(old), Len(s)), old, new)

\* m = re.search(r"(\[.*\])", text, re.DOTALL): from the first "[" to the
\* last "]" after it; "" if there is no match
BracketedPart(text) ==
    IF ~contains(text, "[") THEN ""
    ELSE LET i == IndexOf(text, "[")
         IN  IF ~contains(SubSeq(text, i + 1, Len(text)), "]") THEN ""
             ELSE SubSeq(text, i, LastIndexOf(text, "]"))

\* re.sub(r",\s*([\]}])", r"\1", text), from position i on
RECURSIVE DropCommas(_, _)
DropCommas(text, i) ==
    IF i > Len(text) THEN ""
    ELSE LET j == SkipSpace(text, i + 1)
         IN  IF Char(text, i) = "," /\ j <= Len(text) /\ Char(text, j) \in {"]", "}"}
             THEN Char(text, j) \o DropCommas(text, j + 1)
             ELSE Char(text, i) \o DropCommas(text, i + 1)

repair_json(text) ==
    IF text = "" THEN ""
    ELSE LET t == strip(text)
             m == BracketedPart(t)
             u == IF m # "" THEN m ELSE t
         IN  DropCommas(replace(u, "'", "\""), 1)

\* a JSON value as json.loads builds it
List(items) == [type |-> "list", items |-> items]
Dict(obj) == [type |-> "dict", obj |-> obj]
Str(s) == [type |-> "str", s |-> s]
Invalid == [type |-> "invalid"]

SugarJson == "{\"ingredient\":\"sugar\",\"description\":\"Sweetener\",\"healthy\":\"No\"}"
SaltJson == "{\"ingredient\":\"salt\",\"description\":\"Seasoning\"}"
PepperJson == "{\"ingredient\":\"pepper\",\"reason\":\"Spice\"}"

SugarObj == [ingredient |-> "sugar", description |-> "Sweetener", healthy |-> "No"]
SaltObj == [ingredient |-> "salt", description |-> "Seasoning"]
PepperObj == [ingredient |-> "pepper", reason |-> "Spice"]

\* the texts that are valid JSON, each with its value; json.loads raises on
\* every other text
ValidJson ==
    { <<"[" \o SugarJson \o "]", List(<<Dict(SugarObj)>>)>>,
      <<"[" \o SaltJson \o "]", List(<<Dict(SaltObj)>>)>>,
      <<"[" \o SaltJson \o "," \o PepperJson \o "]", List(<<Dict(SaltObj), Dict(PepperObj)>>)>>,
      <<SaltJson, Dict(SaltObj)>>,
      <<"[]", List(<<>>)>>,
      <<"[\"salt\"]", List(<<Str("salt")>>)>> }

json_loads(text) ==
    IF \E p \in ValidJson : p[1] = text
    THEN (CHOOSE p \in ValidJson : p[1] = text)[2]
    ELSE Invalid

\* the parsed value, or Invalid where the code returns None
parse_model_json(text) ==
    IF json_loads(text) # Invalid THEN json_loads(text)
    ELSE json_loads(repair_json(text))

\* what the model may reply: an array, an array that needs repair, an array
\* with an unrequested item, a single object, prose, an empty array, an array
\* of strings, nothing
ModelTexts ==
    { "[" \o SugarJson \o "]",
      "[" \o SaltJson \o "]",
      "Sure: [{'ingredient':'salt','description':'Seasoning',}] ",
      "[" \o SaltJson \o "," \o PepperJson \o "]",
      SaltJson,
      "I cannot help",
      "[]",
      "[\"salt\"]",
      "" }

\* one entry of results for an item of the parsed array
OkResult(item, result_text) ==
    [ingredient |-> Get(item, "ingredient", None),
     description |-> Or(Get(item, "description", None), ""),
     healthy |-> Or(Or(Get(item, "healthy", None), Get(item, "safe", None)), "Unknown"),
     reason |-> Or(Or(Get(item, "reason", None), Get(item, "explanation", None)), ""),
     banned_in |-> <<>>,
     rating |-> None,
     parse_status |-> "ok",
     raw_output |-> result_text]

FailedResult(ing, reason, parse_status, raw_output) ==
    [ingredient |-> ing, description |-> None, healthy |-> "Unknown", reason |-> reason,
     banned_in |-> <<>>, rating |-> None, parse_status |-> parse_status,
     raw_output |-> raw_output]

ModelErrorResult(ing) == FailedResult(ing, "Model call failed", "model_error", None)
MissingResult(ing, result_text) ==
    FailedResult(ing, "Ingredient not in AI response", "missing", result_text)
ParseFailedResult(ing, result_text) ==
    FailedResult(ing, "Model did not return parseable JSON", "parse_failed", result_text)

Seq2Set(l) == {l[k] : k \in DOMAIN l}

\* for item in parsed: items that are not objects or name no requested
\* ingredient are skipped
RECURSIVE ItemResults(_, _, _)
ItemResults(items, ingredient_set, result_text) ==
    IF items = <<>> THEN <<>>
    ELSE LET item == items[1]
             rest == ItemResults(Tail(items), ingredient_set, result_text)
         IN  IF item.type # "dict" THEN rest
             ELSE IF Get(item.obj, "ingredient", None) \notin ingredient_set THEN rest
             ELSE <<OkResult(item.obj, result_text)>> \o rest

\* for ing in ingredients: if not any(r["ingredient"] == ing ...): append
RECURSIVE WithMissing(_, _, _)
WithMissing(rs, ings, result_text) ==
    IF ings = <<>> THEN rs
    ELSE IF \E k \in DOMAIN rs : rs[k].ingredient = ings[1]
         THEN WithMissing(rs, Tail(ings), result_text)
         ELSE WithMissing(Append(rs, MissingResult(ings[1], result_text)), Tail(ings),
                          result_text)


\* the /analyze request is posted with the list missing, which is not empty
analyze_results(ings, parsed, result_text) ==
    IF parsed.type = "list"
    THEN WithMissing(ItemResults(parsed.items, Seq2Set(ings), result_text), ings, result_text)
    ELSE [k \in DOMAIN ings |-> ParseFailedResult(ings[k], result_text)]

-----------------------------------------------------------------------------
(* The caching backend (src/server/main.py)                                 *)

ServerIngredients == {"Sugar", "sugar", "salt"}

\* every list of at most MaxPosted ingredients
Requests == UNION {[1..k -> ServerIngredients] : k \in 0..MaxPosted}

\* ingredients_collection.find_one({"_id": lower_ing}) found no document
NotCached(ing) == lower(ing) \notin DOMAIN cache

\* cached_results[ing] = cached['data'] for every ingredient found
CachedResults(ings) ==
    [ing \in {ings[k] : k \in {j \in DOMAIN ings : ~NotCached(ings[j])}} |-> cache[lower(ing)]]

Missing(ings) == SelectSeq(ings, NotCached)

\* the dict normalized built from one entry of the AI service's results
normalized(result) ==
    [ingredient |-> result.ingredient,
     usage |-> Or(result.description, "Description not provided"),
     health |-> [verdict |-> Or(result.healthy, "Unknown"),
                 reason |-> Or(result.reason, ""),
                 rating |-> result.rating],
     banned_countries |-> result.banned_in,
     raw_ai_response |-> result.raw_output]

\* the dict built for an ingredient when the AI call raised
AiCallFailed(ing) ==
    [ingredient |-> ing,
     usage |-> "Usage not available (AI call failed)",
     health |-> [verdict |-> "Error", reason |-> "AI call failed"],
     banned_countries |-> <<>>,
     raw_ai_response |-> None]

\* the fallback dict of the combining loop
NotFound(ing) ==
    [ingredient |-> ing,
     usage |-> "Usage not available",
     health |-> [verdict |-> "Unknown", reason |-> "Not found in AI response"],
     banned_countries |-> <<>>,
     raw_ai_response |-> None]

\* update_one({"_id": k}, {"$set": {"data": v}}, upsert=True)
Put(c, k, v) == [id \in DOMAIN c \cup {k} |-> IF id = k THEN v ELSE c[id]]

\* the cache after caching the normalized results one after the other
RECURSIVE CacheAll(_, _)
CacheAll(c, norms) ==
    IF norms = <<>> THEN c
    ELSE CacheAll(Put(c, lower(norms[1].ingredient), norms[1]), Tail(norms))

\* ai_map = {norm['ingredient']: norm for norm in ai_normalized}: the last wins
ai_map(ai_normalized) ==
    [k \in {ai_normalized[j].ingredient : j \in DOMAIN ai_normalized} |->
        ai_normalized[CHOOSE j \in DOMAIN ai_normalized :
              /\ ai_normalized[j].ingredient = k
              /\ \A m \in DOMAIN ai_normalized : ai_normalized[m].ingredient = k => m <= j]]

\* the combining loop, in the order of the input ingredients
normalized_results(ings, cached, ai_normalized) ==
    LET m == ai_map(ai_normalized)
    IN  [p \in DOMAIN ings |->
            IF ings[p] \in DOMAIN cached THEN cached[ings[p]]
            ELSE IF ings[p] \in DOMAIN m THEN m[ings[p]]
            ELSE NotFound(ings[p])]

Ok200(rs) == [status |-> 200, results |-> rs]

InitServer ==
    /\ cache = <<>> /\ srv_pc = "idle" /\ served = 0 /\ posted = <<>>
    /\ cached_results = <<>> /\ missing = <<>> /\ ai_posts = <<>>
    /\ ai_pc = "off" /\ model_calls = 0 /\ ai_resp = NoAnswer
    /\ response = NoResponseYet
    /\ FetchIdle /\ CallIdle /\ MainIdle

\* if not ingredients: return jsonify({"error": ...}), 400
NoIngredients ==
    /\ srv_pc = "idle" /\ served < MaxRequests
    /\ served' = served + 1
    /\ posted' = <<>> /\ cached_results' = <<>> /\ missing' = <<>>
    /\ response' = [status |-> 400, error |-> "No ingredients provided"]
    /\ UNCHANGED <<cache, srv_pc, ai_posts, ai_pc, model_calls, ai_resp,
                   fetchVars, callVars, mainVars>>

\* every ingredient has a document: nothing is posted to the AI service
AllCached(ings) ==
    /\ srv_pc = "idle" /\ served < MaxRequests
    /\ ings # <<>> /\ Missing(ings) = <<>>
    /\ served' = served + 1
    /\ posted' = ings /\ cached_results' = CachedResults(ings) /\ missing' = <<>>
    /\ response' = Ok200(normalized_results(ings, CachedResults(ings), <<>>))
    /\ UNCHANGED <<cache, srv_pc, ai_posts, ai_pc, model_calls, ai_resp,
                   fetchVars, callVars, mainVars>>

\* requests.post(AI_URL, json={"ingredients": missing}, timeout=30)
PostToAi(ings) ==
    /\ srv_pc = "idle" /\ served < MaxRequests
    /\ ings # <<>> /\ Missing(ings) # <<>>
    /\ served' = served + 1
    /\ posted' = ings /\ cached_results' = CachedResults(ings) /\ missing' = Missing(ings)
    /\ ai_posts' = Append(ai_posts, Missing(ings))
    /\ srv_pc' = "ai" /\ ai_pc' = "analyze" /\ model_calls' = 0 /\ ai_resp' = NoAnswer
    /\ UNCHANGED <<cache, response, fetchVars, callVars, mainVars>>

\* the except branch: a failure dict for every missing ingredient, not cached
Failed == Ok200(normalized_results(posted, cached_results,
                                   [k \in DOMAIN missing |-> AiCallFailed(missing[k])]))

\* requests.post raises: the service is unreachable or the 30 s are over
PostRaises ==
    /\ srv_pc = "ai" /\ ai_pc = "analyze"
    /\ response' = Failed
    /\ srv_pc' = "idle" /\ ai_pc' = "off"
    /\ UNCHANGED <<cache, served, posted, cached_results, missing, ai_posts, model_calls,
                   ai_resp, fetchVars, callVars, mainVars>>

\* analyze: hf_client.chat_completion raises
ModelRaises ==
    /\ ai_pc = "analyze"
    /\ model_calls' = model_calls + 1
    /\ ai_resp' = [status |-> 500,
                   results |-> [k \in DOMAIN missing |-> ModelErrorResult(missing[k])]]
    /\ ai_pc' = "returned"
    /\ UNCHANGED <<cache, srv_pc, served, posted, cached_results, missing, ai_posts,
                   response, fetchVars, callVars, mainVars>>

\* analyze: the model replies with result_text; a single object makes analyze
\* call itself, which calls the model again, until the recursion is cut off
\* and the service answers 500
ModelReplies(result_text) ==
    /\ ai_pc = "analyze"
    /\ model_calls' = model_calls + 1
    /\ LET parsed == parse_model_json(result_text)
       IN  IF parsed.type = "dict"
           THEN IF model_calls + 1 < MaxModelCalls
                THEN UNCHANGED <<ai_pc, ai_resp>>
                ELSE ai_pc' = "returned" /\ ai_resp' = [status |-> 500, results |-> <<>>]
           ELSE /\ ai_pc' = "returned"
                /\ ai_resp' = Ok200(analyze_results(missing, parsed, result_text))
    /\ UNCHANGED <<cache, srv_pc, served, posted, cached_results, missing, ai_posts,
                   response, fetchVars, callVars, mainVars>>

\* ai_resp.raise_for_status() raises
AiReturnsError ==
    /\ srv_pc = "ai" /\ ai_pc = "returned" /\ ai_resp.status # 200
    /\ response' = Failed
    /\ srv_pc' = "idle" /\ ai_pc' = "off"
    /\ UNCHANGED <<cache, served, posted, cached_results, missing, ai_posts, model_calls,
                   ai_resp, fetchVars, callVars, mainVars>>

\* every result of a 200 answer is normalized and cached
AiReturnsResults ==
    /\ srv_pc = "ai" /\ ai_pc = "returned" /\ ai_resp.status = 200
    /\ LET ai_normalized == [k \in DOMAIN ai_resp.results |-> normalized(ai_resp.results[k])]
       IN  /\ cache' = CacheAll(cache, ai_normalized)
           /\ response' = Ok200(normalized_results(posted, cached_results, ai_normalized))
    /\ srv_pc' = "idle" /\ ai_pc' = "off"
    /\ UNCHANGED <<served, posted, cached_results, missing, ai_posts, model_calls,
                   ai_resp, fetchVars, callVars, mainVars>>

NextServer ==
    \/ NoIngredients
    \/ \E ings \in Requests : AllCached(ings)
    \/ \E ings \in Requests : PostToAi(ings)
    \/ PostRaises
    \/ ModelRaises
    \/ \E result_text \in ModelTexts : ModelReplies(result_text)
    \/ AiReturnsError
    \/ AiReturnsResults

SpecServer == InitServer /\ [][NextServer]_vars

-----------------------------------------------------------------------------
(* Properties of the ingredient cache *)

\* the dicts the backend builds from the failure outcomes of an analysis
FailureRecords ==
    {normalized(r) : r \in
        UNION {{MissingResult(ing, t), ParseFailedResult(ing, t), ModelErrorResult(ing)} :
                  ing \in ServerIngredients, t \in ModelTexts}}
    \cup {AiCallFailed(ing) : ing \in ServerIngredients}

\* C20: the cache holds only records built from a successful analysis: no
\* failure outcome (AI call failed, output not parseable, ingredient missing
\* from the answer) is persisted, and none is served from the cache.
C20_NoFailureIsCached ==
    /\ \A id \in DOMAIN cache : cache[id] \notin FailureRecords
    /\ \A ing \in DOMAIN cached_results : cached_results[ing] \notin FailureRecords

-----------------------------------------------------------------------------
(* Properties of the response of /process_ingredients *)

\* a request with ingredients was answered and no other is being served; the
\* cache holds the records of successful analyses only
Answered ==
    /\ srv_pc = "idle" /\ posted # <<>> /\ response.status = 200
    /\ \A id \in DOMAIN cache : cache[id] \notin FailureRecords

\* C21: whatever the cache holds and whatever the AI service answers, the
\* response has exactly one record per input position, in input order, and
\* the record at position i carries the string at position i as its
\* "ingredient".
C21_OneRecordPerPositionForItsIngredient ==
    Answered =>
        /\ Len(response.results) = Len(posted)
        /\ \A p \in DOMAIN posted : response.results[p].ingredient = posted[p]

-----------------------------------------------------------------------------
(* Properties of the model calls of analyze *)

\* C22: analyze calls the model once: a reply that parses to a single object
\* is answered from that reply, so a handler that already called the model
\* has returned its response.
C22_OneModelCallPerRequest ==
    /\ model_calls <= 1
    /\ (ai_pc = "analyze") => model_calls = 0
    /\ (ai_pc = "returned" /\ model_calls = 1 /\ ai_resp.status # 200)
           => \A k \in DOMAIN ai_resp.results : ai_resp.results[k].parse_status = "model_error"

====
